---- MODULE Spec2Model ----
(***************************************************************************)
(* Naoris-Auto-Bot: the per-account heartbeat lifecycle of                 *)
(* DeviceHeartbeatBot (start, repeating tick, SIGINT stop) and main's      *)
(* proxy / user-agent assignment.  The repository holds two versions of    *)
(* the program: src/index.js (cloudscraper) and src/unnamed/part_000       *)
(* (axios).  They differ in which remote failures are swallowed and which  *)
(* are rethrown, and in how main loads its configuration; the model runs   *)
(* either one, chosen in Init.                                             *)
(***************************************************************************)
EXTENDS Integers, Sequences, FiniteSets, TLC

\* ------------------------------------------------------------------ bounds
NumAccounts   == 2   \* most accounts accounts.json holds
MaxTicks      == 2   \* timer firings in one run, all sessions together
MaxInFlight   == 2   \* tick callbacks of one session awaiting a reply at once
MaxSigints    == 2   \* deliveries of SIGINT in one run
MaxProxyLines == 2   \* lines of proxy.txt
MaxUaLines    == 2   \* lines of user_agent.txt
CfgTicks      == 2   \* timer firings in a run that explores the configuration

\* ------------------------------------------------------------------ values
Null      == "null"
Undefined == "undefined"

Versions == {"index", "part000"}

Accounts == 0 .. (NumAccounts - 1)

ProxyLineValues == {"", "p1", "p2"}
ProxyFiles == UNION {[1 .. k -> ProxyLineValues] : k \in 1 .. MaxProxyLines}

UaName(k) == IF k = 1 THEN "ua1" ELSE IF k = 2 THEN "ua2" ELSE "ua3"
UaFile(u) == [k \in 1 .. u |-> UaName(k)]

VARIABLES
    version,    \* which of the two programs runs
    proc,       \* [state, exitCode]: the process
    main,       \* main(): pc and locals (useProxy, accounts, proxies, userAgents)
    uaSource,   \* the lines of user_agent.txt
    bot,        \* account -> fields of its DeviceHeartbeatBot
    cycle,      \* account -> startHeartbeatCycle's position and closure
    ticks,      \* account -> the tick callbacks in flight
    offCalls,   \* account -> SIGINT handlers awaiting their toggleDevice("OFF")
    sigints,    \* SIGINT deliveries so far
    hist,       \* account -> what the session has done so far
    report      \* the estimated session earnings logWalletDetails last computed

vars == <<version, proc, main, uaSource, bot, cycle, ticks, offCalls, sigints, hist,
          report>>

\* ----------------------------------------------------- configuration loading

IsBlank(line) == line = ""

\* index.js loadProxies: proxyData.split('\n').filter(line => line.trim())
LoadProxiesIndex(lines) == SelectSeq(lines, LAMBDA l : ~IsBlank(l))

\* String.prototype.trim() on the whole file: its leading and trailing blank
\* lines go; a file of blank lines only becomes the empty string.
RECURSIVE TrimLeft(_)
TrimLeft(lines) ==
    IF lines = <<>> THEN <<>>
    ELSE IF IsBlank(Head(lines)) THEN TrimLeft(Tail(lines)) ELSE lines

RECURSIVE TrimRight(_)
TrimRight(lines) ==
    IF lines = <<>> THEN <<>>
    ELSE IF IsBlank(lines[Len(lines)])
         THEN TrimRight(SubSeq(lines, 1, Len(lines) - 1)) ELSE lines

\* part_000 loadProxies: proxyData.trim().split('\n').map(line => line.trim());
\* ''.split('\n') is [''].
LoadProxiesPart000(lines) ==
    LET t == TrimRight(TrimLeft(lines)) IN IF t = <<>> THEN <<"">> ELSE t

\* loadProxies of either version; a file that cannot be read gives [].
LoadProxies(v, exists, lines) ==
    IF ~exists THEN <<>>
    ELSE IF v = "index" THEN LoadProxiesIndex(lines) ELSE LoadProxiesPart000(lines)

\* arr[index % arr.length]: with length 0 the index is NaN and the element
\* undefined.
ModIndex(arr, index) ==
    IF Len(arr) = 0 THEN Undefined ELSE arr[(index % Len(arr)) + 1]

\* AssignProxy without the modulo: accounts past the end of the list get none.
AssignProxyNoWrap(v, proxies, index) ==
    IF index < Len(proxies) THEN proxies[index + 1] ELSE Null

\* main's choice of proxy for accounts[index], as the constructor stores it.
\* index.js: proxies.length > 0 ? proxies[index % proxies.length] : null.
\* part_000: proxies[index % proxies.length], and the constructor's default
\* parameter (proxy = null) replaces undefined.
AssignProxy(v, proxies, index) ==
    IF v = "index"
    THEN IF Len(proxies) > 0 THEN ModIndex(proxies, index) ELSE Null
    ELSE IF ModIndex(proxies, index) = Undefined THEN Null
         ELSE ModIndex(proxies, index)

\* userAgents[index % userAgents.length]
AssignUserAgent(userAgents, index) == ModIndex(userAgents, index)

\* if (proxyConfig) / if (this.proxy): null and '' are falsy
UsesProxy(proxy) == proxy \notin {Null, Undefined, ""}

\* ------------------------------------------------------------ walletDetails

\* details.activeRatePerMinute as the server sends it, in tenths per minute;
\* the field may be missing.
NoRate == [present |-> FALSE, value |-> 0]
WalletRates == {NoRate} \cup {[present |-> TRUE, value |-> v] : v \in {0, 5}}

\* details.activeRatePerMinute || 0
RateOrZero(rate) == IF rate.present THEN rate.value ELSE 0

\* Earnings that adds the rate to the uptime.
EarningsSum(uptimeMinutes, rate) == uptimeMinutes + RateOrZero(rate)

\* const earnings = this.uptimeMinutes * (details.activeRatePerMinute || 0)
Earnings(uptimeMinutes, rate) == uptimeMinutes * RateOrZero(rate)

\* Nothing computed yet.
NoReport == [logged |-> FALSE, rate |-> NoRate, earnings |-> 0]

\* logWalletDetails(details): the estimate is computed and printed; no field
\* of the bot is assigned.
LogWalletDetails(b, rate) ==
    [logged |-> TRUE, rate |-> rate, earnings |-> Earnings(b.uptimeMinutes, rate)]

\* -------------------------------------------------------------------- state

Running == proc.state = "running"

Constructed(a) == cycle[a].startPc # "none"
Sessions == {a \in Accounts : Constructed(a)}

\* new DeviceHeartbeatBot(account, userAgent, proxy)
NewBot(userAgent, proxy) ==
    [userAgent |-> userAgent, proxy |-> proxy, uptimeMinutes |-> 0, toggleState |-> TRUE]

NoBot == NewBot(Undefined, Null)

NoCycle == [startPc |-> "none", cycleCount |-> 0, timer |-> "none"]

NoHist == [nOff |-> 0, lastOff |-> "none"]

InitWith(uaLengths) ==
    /\ version \in Versions
    /\ proc = [state |-> "running", exitCode |-> 0]
    /\ main = [pc |-> IF version = "index" THEN "ask" ELSE "loadAccounts",
               useProxy |-> TRUE, accounts |-> 0, proxySource |-> "unread",
               proxies |-> <<>>, uaStream |-> FALSE, userAgents |-> <<>>]
    /\ uaSource \in {UaFile(u) : u \in uaLengths}
    /\ bot = [a \in Accounts |-> NoBot]
    /\ cycle = [a \in Accounts |-> NoCycle]
    /\ ticks = [a \in Accounts |-> {}]
    /\ offCalls = [a \in Accounts |-> 0]
    /\ sigints = 0
    /\ hist = [a \in Accounts |-> NoHist]
    /\ report = NoReport

\* A run of the sessions: user_agent.txt holds one line.
Init == InitWith({1})

\* A run that explores the configuration: any user_agent.txt.
InitConfig == InitWith(0 .. MaxUaLines)

\* --------------------------------------------------------------------- main

\* accounts.map(...) building the bots, then the loop that calls
\* bot.startHeartbeatCycle() without awaiting it: each call runs up to its
\* first await, so every session's initial toggleDevice("ON") request is out
\* when the loop ends.
StartSessions(n, proxies, userAgents) ==
    /\ bot' = [a \in Accounts |->
                 IF a < n
                 THEN NewBot(AssignUserAgent(userAgents, a),
                             AssignProxy(version, proxies, a))
                 ELSE bot[a]]
    /\ cycle' = [a \in Accounts |->
                   IF a < n THEN [NoCycle EXCEPT !.startPc = "awaitToggle"]
                   ELSE cycle[a]]

\* index.js only: the y/n prompt.
AskForProxyUsage ==
    \E answer \in BOOLEAN :
        /\ Running
        /\ main.pc = "ask"
        /\ main' = [main EXCEPT !.pc = "loadAccounts", !.useProxy = answer]
        /\ UNCHANGED <<version, proc, uaSource, bot, cycle, ticks, offCalls, sigints, hist, report>>

\* ConfigurationError that ends the process as a normal exit does.
ConfigurationErrorIgnored(p) == [state |-> "exited", exitCode |-> 0]

\* loadAccounts' catch block: process.exit(1)
ConfigurationError(p) == [state |-> "exited", exitCode |-> 1]

\* loadAccounts: accounts.json missing or not JSON.
LoadAccountsFails ==
    /\ Running
    /\ main.pc = "loadAccounts"
    /\ proc' = ConfigurationError(proc)
    /\ UNCHANGED <<version, main, uaSource, bot, cycle, ticks, offCalls, sigints, hist, report>>

\* loadAccounts resolves with n accounts.  index.js then calls getUserAgents()
\* (the stream is opened, the array returned is still empty) and, when proxies
\* were declined, goes on to build and start the sessions without any await.
AccountsLoaded ==
    \E n \in 0 .. NumAccounts :
        /\ Running
        /\ main.pc = "loadAccounts"
        /\ IF version = "index"
           THEN IF main.useProxy
                THEN /\ main' = [main EXCEPT !.pc = "loadProxies", !.accounts = n,
                                             !.uaStream = TRUE, !.userAgents = <<>>]
                     /\ UNCHANGED <<bot, cycle>>
                ELSE /\ main' = [main EXCEPT !.pc = "done", !.accounts = n,
                                             !.uaStream = TRUE, !.userAgents = <<>>,
                                             !.proxySource = "declined", !.proxies = <<>>]
                     /\ StartSessions(n, <<>>, <<>>)
           ELSE /\ main' = [main EXCEPT !.pc = "loadProxies", !.accounts = n]
                /\ UNCHANGED <<bot, cycle>>
        /\ UNCHANGED <<version, proc, uaSource, ticks, offCalls, sigints, hist, report>>

\* A 'line' event of the readline interface getUserAgents() opened:
\* lines.push(line).  The array is main's userAgents; once main has built the
\* bots nothing reads it again.
UaLine ==
    /\ Running
    /\ main.uaStream
    /\ main.pc # "done"
    /\ Len(main.userAgents) < Len(uaSource)
    /\ main' = [main EXCEPT !.userAgents = Append(@, uaSource[Len(@) + 1])]
    /\ UNCHANGED <<version, proc, uaSource, bot, cycle, ticks, offCalls, sigints, hist, report>>

SourceKind(exists, lines) ==
    IF ~exists THEN "missing"
    ELSE IF \A k \in 1 .. Len(lines) : IsBlank(lines[k]) THEN "blank" ELSE "lines"

\* loadProxies resolves; main builds and starts the sessions.  part_000 calls
\* getUserAgents() only now: `await` of the array it returns yields to no I/O
\* event, so the array is empty when the bots are built.
ProxiesLoadedFrom(files) ==
    \E exists \in BOOLEAN, lines \in files :
        LET proxies == LoadProxies(version, exists, lines)
            agents  == IF version = "index" THEN main.userAgents ELSE <<>>
        IN  /\ Running
            /\ main.pc = "loadProxies"
            /\ exists \/ lines = <<"">>
            /\ main' = [main EXCEPT !.pc = "done", !.proxies = proxies,
                                    !.proxySource = SourceKind(exists, lines),
                                    !.uaStream = TRUE, !.userAgents = agents]
            /\ StartSessions(main.accounts, proxies, agents)
            /\ UNCHANGED <<version, proc, uaSource, ticks, offCalls, sigints, hist, report>>

\* A run of the sessions: proxy.txt holds one proxy.
ProxiesLoaded == ProxiesLoadedFrom({<<"p1">>})

\* A run that explores the configuration: any proxy.txt.
ProxiesLoadedConfig == ProxiesLoadedFrom(ProxyFiles)

\* ------------------------------------------------------------ remote calls

\* What each method's catch block does with a failed request: log and
\* swallow it, or log and rethrow.
\* toggleDevice: index.js swallows, part_000 has `throw error`.
ToggleRethrows(v) == v = "part000"

\* sendHeartbeat: swallowed in both (part_000: "disable throw error for keep
\* this bot running").
HeartbeatRethrows(v) == FALSE

\* getWalletDetails: index.js swallows, part_000 has `throw error` (and throws
\* on a response that carries an error).
DetailsRethrows(v) == v = "part000"

\* Toggled that leaves the flag as it was.
ToggledKeepsFlag(b, state) == b

\* toggleDevice after a successful reply: this.toggleState = state === "ON"
Toggled(b, state) == [b EXCEPT !.toggleState = (state = "ON")]

\* TickCatch with the flag held in one place for all sessions.
TickCatchShared(bots, a) == [b \in DOMAIN bots |-> [bots[b] EXCEPT !.toggleState = FALSE]]

\* the catch block of the timer callback: this.toggleState = false, on the
\* session whose callback it is
TickCatch(bots, a) == [bots EXCEPT ![a].toggleState = FALSE]

\* TickCatchRethrows with a catch block that ends in `throw cycleError`.
TickCatchDoesRethrow == TRUE

\* The callback's try covers its whole body and its catch block only logs and
\* assigns: nothing is thrown out of the callback.
TickCatchRethrows == FALSE

\* A rejected promise nobody handles: the Node the README asks for (16 or
\* newer) dies of the uncaught error, with code 1.
Unhandled(p) == [state |-> "exited", exitCode |-> 1]

\* The process after a tick's catch block has run.
AfterTickCatch(p) == IF TickCatchRethrows THEN Unhandled(p) ELSE p

\* the payload flag sendHeartbeat reads when it builds the request
HeartbeatFlag(b) == IF b.toggleState THEN "on" ELSE "off"

\* ------------------------------------------------------ startHeartbeatCycle

\* The reply to the initial toggleDevice("ON").  On success, or on a failure
\* that toggleDevice swallows, start goes on to sendHeartbeat() (startPc
\* "awaitHb", or "awaitHbUntoggled" after the swallowed failure); a rethrown
\* failure lands in start's own catch: no timer, no SIGINT handler.
StartToggleDone(a) ==
    \E ok \in BOOLEAN :
        /\ Running
        /\ cycle[a].startPc = "awaitToggle"
        /\ bot' = [bot EXCEPT ![a] = IF ok THEN Toggled(@, "ON") ELSE @]
        /\ cycle' = [cycle EXCEPT ![a].startPc =
                        IF ok THEN "awaitHb"
                        ELSE IF ToggleRethrows(version) THEN "failed"
                        ELSE "awaitHbUntoggled"]
        /\ UNCHANGED <<version, proc, main, uaSource, ticks, offCalls, sigints, hist, report>>

\* The reply to the initial heartbeat: setInterval arms the timer and
\* process.on('SIGINT', ...) registers this session's handler.
StartHeartbeatDone(a) ==
    \E ok \in BOOLEAN :
        /\ Running
        /\ cycle[a].startPc \in {"awaitHb", "awaitHbUntoggled"}
        /\ cycle' = [cycle EXCEPT ![a] =
                        IF ~ok /\ HeartbeatRethrows(version)
                        THEN [@ EXCEPT !.startPc = "failed"]
                        ELSE [@ EXCEPT !.startPc = "done", !.timer = "armed"]]
        /\ UNCHANGED <<version, proc, main, uaSource, bot, ticks, offCalls, sigints, hist, report>>

\* ---------------------------------------------------------------- the tick

\* FirstCall that re-activates in every tick.
FirstCallAlwaysToggles(b) == "awaitToggle"

\* The request a timer callback awaits first:
\* if (!this.toggleState) await this.toggleDevice("ON"), else sendHeartbeat().
FirstCall(b) == IF b.toggleState THEN "awaitHb" ELSE "awaitToggle"

\* NextCall that goes from the activation straight to the details.
NextCallSkipsHeartbeat(pc) == "awaitDetails"

\* The request a timer callback awaits after the one at pc has returned:
\* sendHeartbeat() follows toggleDevice("ON"), getWalletDetails() follows
\* sendHeartbeat().
NextCall(pc) == IF pc = "awaitToggle" THEN "awaitHb" ELSE "awaitDetails"

\* TickGuard that holds a firing back while a callback is in flight.
TickGuardSerial(inFlight) == inFlight = {}

\* What the timer callback checks before it runs its body: nothing.  It tests
\* no flag and takes no lock, whatever earlier callbacks are awaiting.
TickGuard(inFlight) == TRUE

\* CountMinute that counts only the minutes the device was active.
CountMinuteWhenActive(b) ==
    IF b.toggleState THEN [b EXCEPT !.uptimeMinutes = @ + 1] ELSE b

\* this.uptimeMinutes++, second statement of the timer callback
CountMinute(b) == [b EXCEPT !.uptimeMinutes = @ + 1]

TotalTicks == LET RECURSIVE Sum(_)
                  Sum(k) == IF k < 0 THEN 0 ELSE cycle[k].cycleCount + Sum(k - 1)
              IN  Sum(NumAccounts - 1)

\* The timer fires: cycleCount++, uptimeMinutes++, then either
\* toggleDevice("ON") (toggleState false) or sendHeartbeat() sends a request.
TimerFireWithin(a, maxTicks) ==
    /\ Running
    /\ cycle[a].timer = "armed"
    /\ TotalTicks < maxTicks
    /\ Cardinality(ticks[a]) < MaxInFlight
    /\ TickGuard(ticks[a])
    /\ cycle' = [cycle EXCEPT ![a].cycleCount = @ + 1]
    /\ bot' = [bot EXCEPT ![a] = CountMinute(@)]
    /\ ticks' = [ticks EXCEPT ![a] = @ \cup
                   {[id |-> cycle[a].cycleCount + 1, pc |-> FirstCall(bot[a]),
                     act |-> "none", hbFailed |-> FALSE,
                     hbFlag |-> IF FirstCall(bot[a]) = "awaitHb"
                                THEN HeartbeatFlag(bot[a]) ELSE "unsent"]}]
    /\ UNCHANGED <<version, proc, main, uaSource, offCalls, sigints, hist, report>>

TimerFire(a) == TimerFireWithin(a, MaxTicks)

TimerFireConfig(a) == TimerFireWithin(a, CfgTicks)

\* The reply to a tick's toggleDevice("ON").  A rethrown failure ends the tick
\* in its catch block; otherwise sendHeartbeat() follows.
TickToggleDone(a) ==
    \E t \in ticks[a], ok \in BOOLEAN :
        /\ Running
        /\ t.pc = "awaitToggle"
        /\ IF ~ok /\ ToggleRethrows(version)
           THEN /\ bot' = TickCatch(bot, a)
                /\ ticks' = [ticks EXCEPT ![a] = @ \ {t}]
                /\ proc' = AfterTickCatch(proc)
           ELSE LET b == IF ok THEN Toggled(bot[a], "ON") ELSE bot[a]
                IN  /\ bot' = [bot EXCEPT ![a] = b]
                    /\ ticks' = [ticks EXCEPT ![a] = (@ \ {t}) \cup
                                   {[t EXCEPT !.pc = NextCall(t.pc),
                                              !.act = IF ok THEN "ok" ELSE "failed",
                                              !.hbFlag = HeartbeatFlag(b)]}]
                    /\ UNCHANGED proc
        /\ UNCHANGED <<version, main, uaSource, cycle, offCalls, sigints, hist, report>>

\* The reply to a tick's heartbeat; getWalletDetails() follows unless the
\* failure is rethrown.
TickHeartbeatDone(a) ==
    \E t \in ticks[a], ok \in BOOLEAN :
        /\ Running
        /\ t.pc = "awaitHb"
        /\ IF ~ok /\ HeartbeatRethrows(version)
           THEN /\ bot' = TickCatch(bot, a)
                /\ ticks' = [ticks EXCEPT ![a] = @ \ {t}]
                /\ proc' = AfterTickCatch(proc)
           ELSE /\ ticks' = [ticks EXCEPT ![a] = (@ \ {t}) \cup
                               {[t EXCEPT !.pc = NextCall(t.pc), !.hbFailed = ~ok]}]
                /\ UNCHANGED <<bot, proc>>
        /\ UNCHANGED <<version, main, uaSource, cycle, offCalls, sigints, hist, report>>

\* The reply to a tick's walletDetails request, carrying activeRatePerMinute
\* `rate` when it succeeds: logWalletDetails computes the estimate from the
\* session's uptimeMinutes as it is now.  The tick then ends, through its
\* catch block when the failure is rethrown.
TickDetailsDoneWith(a, rates) ==
    \E t \in ticks[a], ok \in BOOLEAN, rate \in rates :
        /\ Running
        /\ t.pc = "awaitDetails"
        /\ IF ~ok /\ DetailsRethrows(version)
           THEN /\ bot' = TickCatch(bot, a)
                /\ proc' = AfterTickCatch(proc)
           ELSE UNCHANGED <<bot, proc>>
        /\ report' = IF ok THEN LogWalletDetails(bot[a], rate) ELSE report
        /\ ticks' = [ticks EXCEPT ![a] = @ \ {t}]
        /\ UNCHANGED <<version, main, uaSource, cycle, offCalls, sigints, hist>>

\* A run of the sessions: the server's details carry no rate.
TickDetailsDone(a) == TickDetailsDoneWith(a, {NoRate})

\* A run that explores the wallet details: any rate.
TickDetailsDoneWallet(a) == TickDetailsDoneWith(a, WalletRates)

\* ----------------------------------------------------------------- shutdown

\* ClearInterval that leaves the timer running.
ClearIntervalKeeps(c) == c

\* clearInterval(timer), the first statement of the SIGINT listener
ClearInterval(c) == [c EXCEPT !.timer = "cleared"]

\* The sessions whose startHeartbeatCycle reached process.on('SIGINT', ...).
Handlers == {a \in Sessions : cycle[a].startPc = "done"}

\* SIGINT is delivered.  With no listener Node's default ends the process at
\* once.  Otherwise every registered listener runs in turn up to its await:
\* clearInterval(timer), then toggleDevice("OFF") sends its request.  The
\* listeners were added with process.on, so each delivery runs them again.
SigintWithin(maxSigints) ==
    /\ Running
    /\ sigints < maxSigints
    /\ sigints' = sigints + 1
    /\ IF Handlers = {}
       THEN /\ proc' = [state |-> "exited", exitCode |-> 130]
            /\ UNCHANGED <<cycle, offCalls, hist>>
       ELSE /\ cycle' = [a \in Accounts |->
                           IF a \in Handlers
                           THEN ClearInterval(cycle[a]) ELSE cycle[a]]
            /\ offCalls' = [a \in Accounts |->
                              IF a \in Handlers THEN offCalls[a] + 1 ELSE offCalls[a]]
            /\ hist' = [a \in Accounts |->
                          IF a \in Handlers
                          THEN [hist[a] EXCEPT !.nOff = @ + 1] ELSE hist[a]]
            /\ UNCHANGED proc
    /\ UNCHANGED <<version, main, uaSource, bot, ticks, report>>

Sigint == SigintWithin(MaxSigints)

\* What becomes of the process when a SIGINT listener's toggleDevice("OFF")
\* has settled.  The listener goes on to process.exit() (no argument, no
\* process.exitCode: code 0) unless toggleDevice rethrew: then the listener's
\* promise is rejected with nobody handling it.
AfterOff(p, ok, rethrows) ==
    IF ok \/ ~rethrows THEN [state |-> "exited", exitCode |-> 0]
    ELSE Unhandled(p)

\* The reply to a SIGINT listener's toggleDevice("OFF").
OffDone(a) ==
    \E ok \in BOOLEAN :
        /\ Running
        /\ offCalls[a] > 0
        /\ offCalls' = [offCalls EXCEPT ![a] = @ - 1]
        /\ bot' = [bot EXCEPT ![a] = IF ok THEN Toggled(@, "OFF") ELSE @]
        /\ hist' = [hist EXCEPT ![a].lastOff = IF ok THEN "ok" ELSE "failed"]
        /\ proc' = AfterOff(proc, ok, ToggleRethrows(version))
        /\ UNCHANGED <<version, main, uaSource, cycle, ticks, sigints, report>>

\* Nothing keeps the event loop alive: main has returned, no timer is armed
\* and no request is awaited.  Node ends the process with code 0.
NaturalExit ==
    /\ Running
    /\ main.pc = "done"
    /\ \A a \in Accounts :
          /\ cycle[a].startPc \in {"none", "done", "failed"}
          /\ cycle[a].timer # "armed"
          /\ ticks[a] = {}
          /\ offCalls[a] = 0
    /\ proc' = [state |-> "exited", exitCode |-> 0]
    /\ UNCHANGED <<version, main, uaSource, bot, cycle, ticks, offCalls, sigints, hist, report>>

\* ------------------------------------------------------------ specification

Next ==
    \/ AskForProxyUsage
    \/ LoadAccountsFails
    \/ AccountsLoaded
    \/ UaLine
    \/ ProxiesLoaded
    \/ \E a \in Accounts : StartToggleDone(a)
    \/ \E a \in Accounts : StartHeartbeatDone(a)
    \/ \E a \in Accounts : TimerFire(a)
    \/ \E a \in Accounts : TickToggleDone(a)
    \/ \E a \in Accounts : TickHeartbeatDone(a)
    \/ \E a \in Accounts : TickDetailsDone(a)
    \/ Sigint
    \/ \E a \in Accounts : OffDone(a)
    \/ NaturalExit

Spec == Init /\ [][Next]_vars

\* The same program over every configuration, in runs that no signal
\* interrupts.
NextConfig ==
    \/ AskForProxyUsage
    \/ LoadAccountsFails
    \/ AccountsLoaded
    \/ UaLine
    \/ ProxiesLoadedConfig
    \/ \E a \in Accounts : StartToggleDone(a)
    \/ \E a \in Accounts : StartHeartbeatDone(a)
    \/ \E a \in Accounts : TimerFireConfig(a)
    \/ \E a \in Accounts : TickToggleDone(a)
    \/ \E a \in Accounts : TickHeartbeatDone(a)
    \/ \E a \in Accounts : TickDetailsDone(a)
    \/ NaturalExit

SpecConfig == InitConfig /\ [][NextConfig]_vars

\* The same program with wallet details of any rate, in runs that no signal
\* interrupts.
NextWallet ==
    \/ AskForProxyUsage
    \/ LoadAccountsFails
    \/ AccountsLoaded
    \/ UaLine
    \/ ProxiesLoaded
    \/ \E a \in Accounts : StartToggleDone(a)
    \/ \E a \in Accounts : StartHeartbeatDone(a)
    \/ \E a \in Accounts : TimerFire(a)
    \/ \E a \in Accounts : TickToggleDone(a)
    \/ \E a \in Accounts : TickHeartbeatDone(a)
    \/ \E a \in Accounts : TickDetailsDoneWallet(a)
    \/ NaturalExit

SpecWallet == Init /\ [][NextWallet]_vars

TypeOK ==
    /\ proc.state \in {"running", "exited"}
    /\ \A a \in Accounts :
          /\ bot[a].toggleState \in BOOLEAN
          /\ cycle[a].timer \in {"none", "armed", "cleared"}
          /\ Cardinality(ticks[a]) <= MaxInFlight

\* ------------------------------------------------------------------- claims

\* Tick t of session a ends in this step.
TickEnds(a, t) == t \in ticks[a] /\ \A u \in ticks'[a] : u.id # t.id

\* The timer of session a fires in this step.
Fires(a) == cycle'[a].cycleCount = cycle[a].cycleCount + 1

\* The tick the timer of session a has just started.
NewTick(a) == CHOOSE t \in ticks'[a] : t.id = cycle'[a].cycleCount

\* A step of one of session a's tick callbacks.
TickStep(a) == ticks'[a] # ticks[a]

\* A tick that finds toggleState false sends toggleDevice("ON") first.
ReactivatesFirst(a) ==
    (Fires(a) /\ ~bot[a].toggleState) => NewTick(a).pc = "awaitToggle"

\* Session a runs with toggleState false.  Only a tick's catch block leaves
\* it so: a successful toggleDevice("OFF") is followed by process.exit().
Degraded(a) == Constructed(a) /\ Running /\ ~bot[a].toggleState

\* C1: a tick whose heartbeat request fails (its activation, if any, having
\* succeeded) ends with toggleState false, and the next tick, finding it
\* false, sends toggleDevice("ON") before its own heartbeat.
C1_HeartbeatFailureDegrades ==
    [][\A a \in Accounts :
          /\ \A t \in ticks[a] :
                (TickEnds(a, t) /\ t.hbFailed /\ t.act # "failed")
                    => ~bot'[a].toggleState
          /\ ReactivatesFirst(a)]_vars

\* C2: a start whose initial activation fails is not abandoned: it arms the
\* timer and leaves toggleState false (Degraded); a tick that finds it false
\* sends toggleDevice("ON"), and the success of that call makes it true
\* (Active).
C2_FailedStartIsDegraded ==
    [][\A a \in Accounts :
          /\ cycle[a].startPc = "awaitToggle" => cycle'[a].startPc # "failed"
          /\ (cycle[a].startPc = "awaitHbUntoggled" /\ cycle'[a].startPc = "done")
                => (cycle'[a].timer = "armed" /\ ~bot'[a].toggleState)
          /\ ReactivatesFirst(a)
          /\ \A t \in ticks[a], u \in ticks'[a] :
                (t.pc = "awaitToggle" /\ u.id = t.id /\ u.act = "ok")
                    => bot'[a].toggleState]_vars

\* C3: with two or more running sessions, the process that exits after SIGINT
\* has no toggleDevice("OFF") call still pending.
C3_ExitWaitsForEveryOff ==
    (proc.state = "exited" /\ sigints > 0 /\ Cardinality(Handlers) >= 2)
        => \A a \in Accounts : offCalls[a] = 0

\* C4: when SIGINT arrives after main has started the sessions, every session
\* has had its timer cancelled and an OFF request sent before the process
\* exits.
C4_SignalStopsEverySession ==
    (proc.state = "exited" /\ sigints > 0 /\ main.pc = "done")
        => \A a \in Sessions : hist[a].nOff >= 1 /\ cycle[a].timer # "armed"

\* C5: a stopped session has sent exactly one OFF request, however many times
\* SIGINT was delivered.
C5_ExactlyOneOff ==
    \A a \in Sessions :
        /\ hist[a].nOff <= 1
        /\ cycle[a].timer = "cleared" => hist[a].nOff = 1

DefaultUserAgent == "default-user-agent"

\* C6: the session of account i is built with line i mod u of user_agent.txt,
\* and with a default string when the file has no line.
C6_UserAgentRoundRobin ==
    \A a \in Sessions :
        bot[a].userAgent =
            IF Len(uaSource) = 0 THEN DefaultUserAgent
            ELSE uaSource[(a % Len(uaSource)) + 1]

\* C7: the session of account i holds proxies[i mod p] when the loaded proxy
\* list has p > 0 entries and no proxy otherwise (source blank, missing or
\* declined), in every state of the run.
C7_ProxyRoundRobin ==
    \A a \in Sessions :
        /\ Len(main.proxies) > 0
              => bot[a].proxy = main.proxies[(a % Len(main.proxies)) + 1]
        /\ Len(main.proxies) = 0 => bot[a].proxy = Null
        /\ main.proxySource \in {"declined", "missing", "blank"}
              => ~UsesProxy(bot[a].proxy)

\* C7 witness: an account past the end of the proxy list holds a proxy, after
\* a tick of its session has failed.
C7_Witness ==
    \E a \in Sessions :
        /\ Len(main.proxies) > 0
        /\ a >= Len(main.proxies)
        /\ UsesProxy(bot[a].proxy)
        /\ Degraded(a)

\* C8: a step of a tick callback of session a leaves every other session's
\* uptimeMinutes, toggleState and timer as they were.
C8_TickLeavesOthersAlone ==
    [][\A a \in Accounts :
          TickStep(a) =>
              \A b \in Accounts \ {a} :
                  /\ bot'[b].uptimeMinutes = bot[b].uptimeMinutes
                  /\ bot'[b].toggleState = bot[b].toggleState
                  /\ cycle'[b].timer = cycle[b].timer]_vars

\* C8 witness: a tick of one session has ended in its catch block while
\* another session has ticked, is active and has its timer armed.
C8_Witness ==
    \E a, b \in Sessions :
        /\ a # b
        /\ Degraded(a)
        /\ bot[b].uptimeMinutes > 0
        /\ bot[b].toggleState
        /\ cycle[b].timer = "armed"

\* C9: a step of a tick callback, failing or not, leaves the session's timer
\* and the process as they were: nothing is thrown out of the callback.
C9_TickFailureKeepsSchedule ==
    [][\A a \in Accounts :
          TickStep(a) => (cycle'[a].timer = cycle[a].timer /\ proc' = proc)]_vars

\* C9 witness: after a tick that ended in its catch block the timer is armed
\* and a later tick, started with toggleState false, is running.
C9_Witness ==
    \E a \in Sessions :
        /\ Degraded(a)
        /\ cycle[a].timer = "armed"
        /\ \E t \in ticks[a] : t.id > 1 /\ t.pc = "awaitToggle"

\* C10: when a SIGINT listener's OFF call has failed, the process has exited
\* with code 0.
C10_OffFailureStillExitsZero ==
    \A a \in Accounts :
        hist[a].lastOff = "failed" => (proc.state = "exited" /\ proc.exitCode = 0)

\* Session a's SIGINT listener has run: its stop has begun.
StopRan(a) == hist[a].nOff >= 1

\* C11: once the SIGINT listener of a session has run, the session's timer is
\* cleared and stays cleared, and the timer never fires again, wherever the
\* signal fell among the timer firings.
C11_StoppedIsTerminal ==
    [][\A a \in Accounts :
          StopRan(a) =>
              /\ cycle[a].timer = "cleared"
              /\ cycle'[a].timer = "cleared"
              /\ ~Fires(a)]_vars

\* C11 witness: the signal stopped a session that had ticked, with a tick
\* still in flight, while the run could have fired more timers.
C11_Witness ==
    \E a \in Sessions :
        /\ Running
        /\ StopRan(a)
        /\ cycle[a].cycleCount >= 1
        /\ ticks[a] # {}
        /\ TotalTicks < MaxTicks

\* C12: every tick the timer starts sends one heartbeat request: a tick that
\* finds toggleState true sends it at once, and no tick ends before its
\* heartbeat request has gone out, the ticks that started with toggleState
\* false included.
C12_EveryTickSendsHeartbeat ==
    [][\A a \in Accounts :
          /\ (Fires(a) /\ bot[a].toggleState) => NewTick(a).hbFlag # "unsent"
          /\ \A t \in ticks[a] : TickEnds(a, t) => t.hbFlag # "unsent"]_vars

\* C13: toggleState is true only after a toggleDevice("ON") of the session has
\* succeeded: it is false while the initial activation is awaited and after
\* an initial activation that failed.
C13_ActiveOnlyAfterActivation ==
    \A a \in Sessions :
        cycle[a].startPc \in {"awaitToggle", "awaitHbUntoggled", "failed"}
            => ~bot[a].toggleState

\* C14: the estimate logWalletDetails computes is the session's uptimeMinutes,
\* as it stands when the details reply is processed, times the rate of the
\* reply, a missing rate counting as 0 (uptime 10 at 0.5 a minute gives 5.0:
\* 50 tenths); the step that computes it changes no field of any bot and no
\* timer.
C14_EstimatedEarnings ==
    [][/\ Earnings(10, [present |-> TRUE, value |-> 5]) = 50
       /\ \A a \in Accounts :
             (TickStep(a) /\ report' # report) =>
                 /\ report'.earnings =
                        bot[a].uptimeMinutes *
                            (IF report'.rate.present THEN report'.rate.value ELSE 0)
                 /\ bot' = bot
                 /\ cycle' = cycle]_vars

\* C14 witness: tick 1 of a session computed its estimate at a rate of 0.5
\* after the timer had fired again: uptimeMinutes 2 gives 1.0, while tick 2
\* has not reached its details request.
C14_Witness ==
    \E a \in Sessions :
        /\ report.logged
        /\ report.rate.present
        /\ report.earnings = 10
        /\ bot[a].uptimeMinutes = 2
        /\ \E t \in ticks[a] : t.id = 2 /\ t.pc = "awaitHb"

\* No session exists: no bot was built, no activation request was sent, no
\* timer is armed and no tick runs.
NothingStarted ==
    \A a \in Accounts : cycle[a] = NoCycle /\ ticks[a] = {} /\ offCalls[a] = 0

Advances(t, u) == u.id = t.id /\ u # t

\* C16: the requests of one tick go out in the order activation, heartbeat,
\* details, each after the one before it has returned: a tick starts at the
\* activation only when toggleState is false and at the heartbeat otherwise;
\* it moves from the activation to the heartbeat and from the heartbeat to
\* the details and nowhere else; no heartbeat has gone out while the
\* activation is awaited; and a tick that leaves early sends nothing more.
C16_CallsInOrder ==
    [][\A a \in Accounts :
          /\ Fires(a) =>
                /\ NewTick(a).pc \in {"awaitToggle", "awaitHb"}
                /\ NewTick(a).pc = "awaitToggle" => ~bot[a].toggleState
          /\ \A t \in ticks[a], u \in ticks'[a] :
                Advances(t, u) =>
                    \/ t.pc = "awaitToggle" /\ u.pc = "awaitHb"
                    \/ t.pc = "awaitHb" /\ u.pc = "awaitDetails"
          /\ \A t \in ticks[a] :
                /\ t.pc = "awaitToggle" <=> t.hbFlag = "unsent"
                /\ TickEnds(a, t) => ticks'[a] \subseteq ticks[a]]_vars

\* C16 witness: a tick that began with the activation is awaiting its
\* details, third of three requests.
C16_Witness ==
    \E a \in Sessions :
        \E t \in ticks[a] : t.act = "ok" /\ t.pc = "awaitDetails"

\* C17: the timer of a running session can fire while earlier ticks of the
\* session are still awaiting a reply; nothing serializes them.
C17_TicksOverlap ==
    \A a \in Accounts :
        (/\ Running
         /\ cycle[a].timer = "armed"
         /\ ticks[a] # {}
         /\ TotalTicks < MaxTicks
         /\ Cardinality(ticks[a]) < MaxInFlight) => ENABLED TimerFire(a)

\* C17 witness: two ticks of one session are in flight at once, each having
\* incremented uptimeMinutes, the later one started while the earlier one
\* was awaiting a reply.
C17_Witness ==
    \E a \in Sessions :
        /\ Running
        /\ bot[a].uptimeMinutes = 2
        /\ \E t, u \in ticks[a] : t.id = 1 /\ u.id = 2

C19_StartSequence ==
    [][\A a \in Accounts :
          /\ cycle[a].startPc = "none" /\ cycle'[a].startPc # "none" =>
                \A b \in Accounts :
                    b < main'.accounts => cycle'[b].startPc = "awaitToggle"
          /\ cycle[a].startPc = "awaitToggle" /\ cycle'[a].startPc # "awaitToggle" =>
                cycle'[a].startPc \in {"awaitHb", "awaitHbUntoggled"}
          /\ cycle[a].startPc \in {"awaitHb", "awaitHbUntoggled"}
                /\ cycle'[a].startPc # cycle[a].startPc =>
                cycle'[a].startPc = "done" /\ cycle'[a].timer = "armed"
          /\ cycle'[a].timer = "armed" => cycle'[a].startPc = "done"
          /\ cycle'[a].startPc # cycle[a].startPc =>
                \A b \in Accounts \ {a} :
                    cycle[b].startPc # "none" => cycle'[b] = cycle[b]]_vars

\* C20: until the session's SIGINT listener has run, every heartbeat request
\* of the session was built with toggleState true: the initial heartbeat of
\* startHeartbeatCycle and the heartbeat of every tick in flight, the ticks
\* that found toggleState false and overlapping ticks included.
C20_HeartbeatCarriesTrue ==
    \A a \in Accounts :
        ~StopRan(a) =>
            /\ cycle[a].startPc \in {"awaitHb", "awaitHbUntoggled"}
                  => HeartbeatFlag(bot[a]) = "on"
            /\ \A t \in ticks[a] : t.hbFlag # "off"

\* C20 witness: before any signal, a tick that found toggleState false has
\* re-activated and its heartbeat, built with the flag true, is awaited.
C20_Witness ==
    \E a \in Sessions :
        /\ sigints = 0
        /\ \E t \in ticks[a] : t.act = "ok" /\ t.pc = "awaitHb" /\ t.hbFlag = "on"

\* C21: a session's uptimeMinutes is the number of times its timer has fired:
\* every firing adds one before any request goes out, whatever became of the
\* earlier ticks and whether or not one is still in flight, and nothing else
\* changes it.
C21_UptimeCountsFirings ==
    \A a \in Accounts :
        /\ bot[a].uptimeMinutes = cycle[a].cycleCount
        /\ \A t \in ticks[a] : t.id <= bot[a].uptimeMinutes

\* C21 witness: the timer fired for the second time while tick 1 was in
\* flight, tick 1 has since ended in its catch block, and both were counted.
C21_Witness ==
    \E a \in Sessions :
        /\ Degraded(a)
        /\ bot[a].uptimeMinutes = 2
        /\ \E t \in ticks[a] : t.id = 2 /\ t.act = "none" /\ t.pc # "awaitToggle"

\* C22: once the SIGINT listener of a session has sent its OFF request, no
\* tick of the session sends another request: none starts and none in
\* flight goes on to its next call.
C22_NoRequestAfterOff ==
    [][\A a \in Accounts :
          StopRan(a) =>
              /\ ~Fires(a)
              /\ \A t \in ticks[a], u \in ticks'[a] : ~Advances(t, u)]_vars

====
